---- MODULE Spec2Model ----
(***************************************************************************)
(* The chained-timeout continuation engine of ukraine_bus_bot:             *)
(*   app.py            POST /blast, POST /timeout                          *)
(*   messaging_bot.py  Bot.handle_blast_request, Bot.iterate_blast,        *)
(*                     Bot.call_timeout_with_params, start_bot             *)
(*   db.py             the keyed tables (MockDynamoDBTable semantics)      *)
(*   messaging.py      the queueing messaging session                      *)
(*                                                                         *)
(* Each request is an invocation with its own locals and program counter;  *)
(* invocations share the two tables, the scheduler's executions and the    *)
(* messenger.  A step of an invocation is one access to shared state with  *)
(* the local computation around it.                                        *)
(*                                                                         *)
(* Modelling decisions.                                                    *)
(*  - The job record carries the fields the handlers give it and read      *)
(*    back (last_phone_sent_idx, text_to_send; messaging_bot.py:99-106).   *)
(*    models.Blast (models.py:40-46) declares last_phone_sent instead.     *)
(*  - Python values whose type decides a comparison are tagged: int 1 and  *)
(*    str "1" are different dictionary keys.                               *)
(*  - logger.log(msg, arg) passes the message where the level is expected  *)
(*    (messaging_bot.py:124,131).  logging raises TypeError there when     *)
(*    logging.raiseExceptions is set (the default) and returns without     *)
(*    logging when it is not; both outcomes are kept.                      *)
(*  - defs.py is not part of the sources: MAX_TIMEOUT_SECONDS ranges over  *)
(*    1..MaxCap and ITERATE_BLAST is the string of the interface table.    *)
(*  - The sheet reader, the audit sink and the wall clock are collaborators:*)
(*    the sheet is an input, report_log has no effect on this state, and   *)
(*    a timestamp is the token "utcnow".                                   *)
(***************************************************************************)
EXTENDS Integers, Sequences, FiniteSets, TLC

(***************************************************************************)
(* Bounds of the model.                                                    *)
(***************************************************************************)
\* Recipients in one sheet (raw items after the text).
MaxRecipients == 2
\* POST /blast requests in one behaviour.
MaxBlasts == 1
\* POST /blast requests in one behaviour when every callback is delivered once.
MaxOnceBlasts == 2
\* POST /timeout requests that do not come from the scheduler.
MaxPosts == 1
\* Callbacks the scheduler delivers once more than once (at-least-once delivery).
MaxDuplicates == 1
\* Invocations in progress at the same time.
MaxActive == 2
\* MAX_TIMEOUT_SECONDS ranges over 1..MaxCap.
MaxCap == 2
\* Delays handed to the dispatcher range over 0..MaxDelay.
MaxDelay == 7
\* GET / requests in one behaviour.
MaxHellos == 1
\* Characters in a text handed to split_message_by_max_len.
MaxTextLen == 4
\* max_len ranges over 1..MaxMaxLen.
MaxMaxLen == 4
\* Items in a payload handed to utils.serialize.
MaxItems == 2
\* Characters in a str value of such a payload.
MaxStrLen == 2
\* The largest int value of such a payload, -MaxInt the smallest.
MaxInt == 12
\* Calls of update_if_not_set in one behaviour.
MaxUpdates == 3

\* messaging_bot.py:49
LOOP_ITERATION_DELAY == 1

VARIABLES
    \* defs.MAX_TIMEOUT_SECONDS, fixed through a behaviour
    MAX_TIMEOUT_SECONDS,
    \* logging.raiseExceptions, fixed through a behaviour
    raiseExceptions,
    \* Bot.blasts_table: items in insertion order, keyed (blast_id, status)
    blasts_table,
    \* Bot.blast_phones_table: items in insertion order, keyed (blast_id, phone)
    blast_phones_table,
    \* MessagingSession.sent_messages: the messages flushed to the messaging
    \* API, in order
    sent_messages,
    \* the executions started at the scheduling primitive, in order
    executions,
    \* the invocations of the request handlers, in order of arrival
    inv,
    \* number of POST /timeout requests made by other clients so far
    posts,
    \* the latest call that touches none of the state above: GET /, or a call of
    \* a pure function of utils.py, with its arguments and its result
    stateless

vars == <<MAX_TIMEOUT_SECONDS, raiseExceptions, blasts_table, blast_phones_table,
          sent_messages, executions, inv, posts, stateless>>

\* no such call has been made
NoCall == [fn |-> "", pc |-> "", args |-> <<>>, result |-> <<>>]

(***************************************************************************)
(* Python values and dictionaries.                                         *)
(***************************************************************************)
\* the int n
PyInt(n) == [t |-> "int", v |-> n]
\* str(n): the decimal string of n
str(n) == [t |-> "str", v |-> n]
\* int(x) for an int or a decimal string
int(x) == x.v

None == [none |-> TRUE]

DictSet(d, k, val) == [x \in (DOMAIN d) \cup {k} |-> IF x = k THEN val ELSE d[x]]
DictDel(d, k) == [x \in (DOMAIN d) \ {k} |-> d[x]]

\* utils.serialize / utils.deserialize: base64 of the JSON text of a dict
serialize(param) == [b64json |-> param]
deserialize(param) == param.b64json

\* defs.TimeoutMethod.ITERATE_BLAST
ITERATE_BLAST == "iterate_blast"

(***************************************************************************)
(* db.MockDynamoDBTable over a sequence of items.                          *)
(***************************************************************************)
complete_key(item, keys) == [k \in 1..Len(keys) |-> item[keys[k]]]

\* put: the item replaces the one stored under its complete key, or is added
put(items, item, keys) ==
    IF \E n \in 1..Len(items) : complete_key(items[n], keys) = complete_key(item, keys)
    THEN [n \in 1..Len(items) |->
             IF complete_key(items[n], keys) = complete_key(item, keys)
             THEN item ELSE items[n]]
    ELSE Append(items, item)

\* query(blast_id=...): the matching items in table order
query(items, blast_id) == SelectSeq(items, LAMBDA it : it.blast_id = blast_id)

get_first(items, blast_id) ==
    IF query(items, blast_id) # <<>> THEN query(items, blast_id)[1] ELSE None

BLASTS_KEYS == <<"blast_id", "status">>
BLAST_PHONES_KEYS == <<"blast_id", "phone">>

IN_PROGRESS == "in progress"
ERROR == "error"
DONE == "done"

(***************************************************************************)
(* Inputs.                                                                 *)
(***************************************************************************)
Text == "text of the blast"

\* the n-th phone of a sheet of distinct phones
Phone(n) == "+" \o ToString(n) \o "000"

\* GoogleSheets.read_sheet, first column: no row at all; or the text and then up
\* to MaxRecipients phones, all distinct or the first one repeated
Sheets ==
    {<<>>}
    \cup {<<Text>> \o [n \in 1..k |-> Phone(n)] : k \in 0..MaxRecipients}
    \cup {<<Text>> \o [n \in 1..k |-> Phone(1)] : k \in 2..MaxRecipients}

\* utils.get_uid: a fresh identifier per call
get_uid(n) == "uid" \o ToString(n)

(***************************************************************************)
(* Bot.call_timeout_with_params: the wait requested from the scheduling    *)
(* primitive and the callback path (messaging_bot.py:156-208).             *)
(***************************************************************************)
\* the remaining delay taken after the cap has replaced timeout_seconds
call_timeout_with_params_late_remaining(params, timeout_seconds) ==
    IF timeout_seconds > MAX_TIMEOUT_SECONDS
    THEN [WAIT_TIME |-> MAX_TIMEOUT_SECONDS,
          requestPath |-> serialize(DictSet(params, "remaining_timeout_seconds",
                                            MAX_TIMEOUT_SECONDS - MAX_TIMEOUT_SECONDS))]
    ELSE [WAIT_TIME |-> timeout_seconds,
          requestPath |-> serialize(params)]

\* remaining_timeout_seconds removed from params when the delay is within the cap
call_timeout_with_params_strips(params, timeout_seconds) ==
    IF timeout_seconds > MAX_TIMEOUT_SECONDS
    THEN [WAIT_TIME |-> MAX_TIMEOUT_SECONDS,
          requestPath |-> serialize(DictSet(params, "remaining_timeout_seconds",
                                            timeout_seconds - MAX_TIMEOUT_SECONDS))]
    ELSE [WAIT_TIME |-> timeout_seconds,
          requestPath |-> serialize(DictDel(params, "remaining_timeout_seconds"))]

\* the whole delay put into the payload as the remainder
call_timeout_with_params_remaining_whole(params, timeout_seconds) ==
    IF timeout_seconds > MAX_TIMEOUT_SECONDS
    THEN [WAIT_TIME |-> MAX_TIMEOUT_SECONDS,
          requestPath |-> serialize(DictSet(params, "remaining_timeout_seconds",
                                            timeout_seconds))]
    ELSE [WAIT_TIME |-> timeout_seconds,
          requestPath |-> serialize(params)]

call_timeout_with_params(params, timeout_seconds) ==
    IF timeout_seconds > MAX_TIMEOUT_SECONDS
    THEN [WAIT_TIME |-> MAX_TIMEOUT_SECONDS,
          requestPath |-> serialize(DictSet(params, "remaining_timeout_seconds",
                                            timeout_seconds - MAX_TIMEOUT_SECONDS))]
    ELSE [WAIT_TIME |-> timeout_seconds,
          requestPath |-> serialize(params)]

\* client.start_execution: one more execution under a fresh name.  requested,
\* params, origin, chain, by and for_blast are history: the delay and the params
\* given to the dispatcher, the delay the chain of waits started with, the waits
\* of the chain so far, the invocation that scheduled it and the job that
\* invocation created or read.
start_execution(execs, call, requested, params, origin, chain, by, for_blast) ==
    Append(execs,
           [WAIT_TIME |-> call.WAIT_TIME, requestPath |-> call.requestPath,
            requested |-> requested, params |-> params, origin |-> origin,
            chain |-> Append(chain, call.WAIT_TIME),
            by |-> by, for_blast |-> for_blast, fired |-> 0])

(***************************************************************************)
(* Invocations.                                                            *)
(***************************************************************************)
NewInv(handler, pc, data, origin, chain, exec) ==
    [handler |-> handler, pc |-> pc, data |-> data,
     blast |-> None, phones |-> <<>>, messages |-> <<>>,
     exc |-> "", response |-> "", result |-> "", overlaps |-> {},
     undelivered |-> <<>>,
     origin |-> origin, chain |-> chain, exec |-> exec]

\* MessagingSession.send_message with queue_messages (the default of start_bot)
send_message(messages, phone, message) ==
    Append(messages, [phone |-> phone, message |-> message])

\* an exception leaves the handler: start_bot's finally flushes, then
\* catch_exceptions_flask answers
Raise(invs, i, exc) == [invs EXCEPT ![i].exc = exc, ![i].pc = "flush"]

\* the cursor of a new job set to the index of the first send
Blast_cursor_at_one(blast_id, phones, text_to_send) ==
    [blast_id |-> blast_id,
     status |-> IN_PROGRESS,
     num_phones |-> str(Len(phones)),
     last_phone_sent_idx |-> PyInt(1),
     started_timestamp |-> "utcnow",
     ended_timestamp |-> "",
     text_to_send |-> text_to_send]

\* a new job given the status ERROR
Blast_status_error(blast_id, phones, text_to_send) ==
    [blast_id |-> blast_id,
     status |-> ERROR,
     num_phones |-> str(Len(phones)),
     last_phone_sent_idx |-> PyInt(0),
     started_timestamp |-> "utcnow",
     ended_timestamp |-> "",
     text_to_send |-> text_to_send]

\* a new job stamped with an end time
Blast_ended_at_start(blast_id, phones, text_to_send) ==
    [blast_id |-> blast_id,
     status |-> IN_PROGRESS,
     num_phones |-> str(Len(phones)),
     last_phone_sent_idx |-> PyInt(0),
     started_timestamp |-> "utcnow",
     ended_timestamp |-> "utcnow",
     text_to_send |-> text_to_send]

\* models.Blast(...) as handle_blast_request builds it
Blast(blast_id, phones, text_to_send) ==
    [blast_id |-> blast_id,
     status |-> IN_PROGRESS,
     num_phones |-> str(Len(phones)),
     last_phone_sent_idx |-> PyInt(0),
     started_timestamp |-> "utcnow",
     ended_timestamp |-> "",
     text_to_send |-> text_to_send]

\* models.BlastPhone(...) as handle_blast_request builds it
BlastPhone(blast_id, phone, i) ==
    [blast_id |-> blast_id, phone |-> phone, phone_idx |-> str(i)]

\* for i, phone in enumerate(phones): batch.put(BlastPhone(...)), from index i
RECURSIVE batch_put(_, _, _, _)
batch_put(items, blast_id, phones, i) ==
    IF phones = <<>> THEN items
    ELSE batch_put(put(items, BlastPhone(blast_id, Head(phones), i), BLAST_PHONES_KEYS),
                   blast_id, Tail(phones), i + 1)

\* the identifiers get_uid has handed out so far
Uids == {inv[n].blast.blast_id :
            n \in {m \in 1..Len(inv) : inv[m].handler = "blast" /\ inv[m].blast # None}}

\* a further request may be taken up
Admits == Cardinality({n \in 1..Len(inv) : inv[n].pc # "done"}) < MaxActive

(***************************************************************************)
(* POST /blast and Bot.handle_blast_request.                               *)
(***************************************************************************)
\* the request arrives; handle_blast_request reads the sheet, builds the job and
\* puts it (app.py:37-38, messaging_bot.py:96-107)
handle_blast_request_put_blast(limit) ==
    /\ Admits
    /\ Cardinality({n \in 1..Len(inv) : inv[n].handler = "blast"}) < limit
    /\ \E sheet \in Sheets :
         LET new == NewInv("blast", "phones", <<>>, 0, <<>>, 0)
         IN IF sheet = <<>>
            THEN \* phones[0] of the empty list
                 /\ inv' = Append(inv, [new EXCEPT !.exc = "IndexError", !.pc = "flush"])
                 /\ UNCHANGED blasts_table
            ELSE LET blast == Blast(get_uid(Cardinality(Uids) + 1), Tail(sheet), Head(sheet))
                 IN /\ blasts_table' = put(blasts_table, blast, BLASTS_KEYS)
                    /\ inv' = Append(inv, [new EXCEPT !.blast = blast,
                                                      !.phones = Tail(sheet)])
    /\ UNCHANGED <<stateless, MAX_TIMEOUT_SECONDS, raiseExceptions, blast_phones_table,
                   sent_messages, executions, posts>>

\* the batch of recipient rows, then the first send (messaging_bot.py:108-115)
handle_blast_request_put_phones ==
  \E i \in 1..Len(inv) :
    /\ inv[i].handler = "blast"
    /\ inv[i].pc = "phones"
    /\ blast_phones_table' =
           batch_put(blast_phones_table, inv[i].blast.blast_id, inv[i].phones, 0)
    /\ IF inv[i].phones = <<>>
       THEN \* phones[0] of the empty list
            inv' = Raise(inv, i, "IndexError")
       ELSE inv' = [inv EXCEPT
                       ![i].messages = send_message(@, inv[i].phones[1], "hello world"),
                       ![i].pc = "schedule"]
    /\ UNCHANGED <<stateless, MAX_TIMEOUT_SECONDS, raiseExceptions, blasts_table,
                   sent_messages, executions, posts>>

\* the params both handlers hand to call_timeout_with_params
\* (messaging_bot.py:116-118, 143-145)
iterate_blast_params(blast) ==
    [blast_id |-> "BLAST_TEST_ID", method |-> ITERATE_BLAST]

\* the continuation is scheduled (messaging_bot.py:116-119 and 143-146)
schedule_iterate_blast ==
  \E i \in 1..Len(inv) :
    /\ inv[i].pc = "schedule"
    /\ executions' =
           start_execution(executions,
               call_timeout_with_params(iterate_blast_params(inv[i].blast),
                                        LOOP_ITERATION_DELAY),
               LOOP_ITERATION_DELAY, iterate_blast_params(inv[i].blast),
               LOOP_ITERATION_DELAY, <<>>, i, inv[i].blast.blast_id)
    /\ inv' = [inv EXCEPT ![i].pc = "flush"]
    /\ UNCHANGED <<stateless, MAX_TIMEOUT_SECONDS, raiseExceptions, blasts_table,
                   blast_phones_table, sent_messages, posts>>

\* the empty object answered whether or not the handler raised
flush_messages_answers_empty ==
  \E i \in 1..Len(inv) :
    /\ inv[i].pc = "flush"
    /\ sent_messages' = sent_messages \o inv[i].messages
    /\ inv' = [inv EXCEPT ![i].messages = <<>>,
                          ![i].pc = "done",
                          ![i].response = "{}"]
    /\ UNCHANGED <<stateless, MAX_TIMEOUT_SECONDS, raiseExceptions, blasts_table,
                   blast_phones_table, executions, posts>>

\* a start_bot without finally: the queue of a block that raised is dropped
flush_messages_skips_on_error ==
  \E i \in 1..Len(inv) :
    /\ inv[i].pc = "flush"
    /\ sent_messages' = IF inv[i].exc = "" THEN sent_messages \o inv[i].messages
                        ELSE sent_messages
    /\ inv' = [inv EXCEPT ![i].messages = <<>>,
                          ![i].pc = "done",
                          ![i].response = IF inv[i].exc = "" THEN "{}"
                                          ELSE "had an error"]
    /\ UNCHANGED <<stateless, MAX_TIMEOUT_SECONDS, raiseExceptions, blasts_table,
                   blast_phones_table, executions, posts>>

\* start_bot's finally: Bot.flush_messages transmits the queue; then the response
\* (messaging_bot.py:64-67, messaging.py:52-55, utils.py:100-111)
flush_messages ==
  \E i \in 1..Len(inv) :
    /\ inv[i].pc = "flush"
    /\ sent_messages' = sent_messages \o inv[i].messages
    /\ inv' = [inv EXCEPT ![i].messages = <<>>,
                          ![i].pc = "done",
                          ![i].response = IF inv[i].exc = "" THEN "{}"
                                          ELSE "had an error"]
    /\ UNCHANGED <<stateless, MAX_TIMEOUT_SECONDS, raiseExceptions, blasts_table,
                   blast_phones_table, executions, posts>>

(***************************************************************************)
(* POST /timeout/<timeout_params> (app.py:42-70).                          *)
(***************************************************************************)
\* data.get('remaining_timeout_seconds') is truthy
has_remaining(data) ==
    /\ "remaining_timeout_seconds" \in DOMAIN data
    /\ data.remaining_timeout_seconds # 0

\* data.get('method'), data.get('blast_id'): "None" stands for the missing key
data_get(data, k) == IF k \in DOMAIN data THEN data[k] ELSE "None"

\* the method looked at before the remaining delay
timeout_branch_method_first(data) ==
    IF data_get(data, "method") = ITERATE_BLAST THEN "iterate_blast"
    ELSE IF has_remaining(data) THEN "tick"
    ELSE "ignore"

\* every payload without a remaining delay handed to iterate_blast
timeout_branch_any_method(data) ==
    IF has_remaining(data) THEN "tick" ELSE "iterate_blast"

\* the branch the endpoint takes
timeout_branch(data) ==
    IF has_remaining(data) THEN "tick"
    ELSE IF data_get(data, "method") = ITERATE_BLAST THEN "iterate_blast"
    ELSE "ignore"

\* the still-waiting tick: the wait and the params of the re-dispatch (app.py:49-56)
\* the tick that loses the method on the way
timeout_tick_drops_method(data) ==
    IF data.remaining_timeout_seconds > MAX_TIMEOUT_SECONDS
    THEN [timeout_seconds |-> MAX_TIMEOUT_SECONDS,
          data |-> DictDel(DictSet(data, "remaining_timeout_seconds",
                                   data.remaining_timeout_seconds - MAX_TIMEOUT_SECONDS),
                           "method")]
    ELSE [timeout_seconds |-> data.remaining_timeout_seconds,
          data |-> DictDel(DictDel(data, "remaining_timeout_seconds"), "method")]

timeout_tick(data) ==
    IF data.remaining_timeout_seconds > MAX_TIMEOUT_SECONDS
    THEN [timeout_seconds |-> MAX_TIMEOUT_SECONDS,
          data |-> DictSet(data, "remaining_timeout_seconds",
                           data.remaining_timeout_seconds - MAX_TIMEOUT_SECONDS)]
    ELSE [timeout_seconds |-> data.remaining_timeout_seconds,
          data |-> DictDel(data, "remaining_timeout_seconds")]

\* the request arrives and is routed.  execs are the executions as the arrival
\* leaves them; origin, chain and exec are the history of the execution that
\* called back (exec = 0: another client).
timeout(execs, timeout_params, origin, chain, exec) ==
    LET data == deserialize(timeout_params)
        i == Len(inv) + 1
    IN CASE timeout_branch(data) = "tick" ->
              /\ executions' =
                     start_execution(execs,
                         call_timeout_with_params(timeout_tick(data).data,
                                                  timeout_tick(data).timeout_seconds),
                         timeout_tick(data).timeout_seconds, timeout_tick(data).data,
                         origin, chain, i, "")
              /\ inv' = Append(inv, NewInv("timeout", "flush", data, origin, chain, exec))
         [] timeout_branch(data) = "iterate_blast" ->
              /\ executions' = execs
              /\ inv' = Append(inv,
                     NewInv("timeout", "iterate_get", data, origin, chain, exec))
         [] OTHER ->
              /\ executions' = execs
              /\ inv' = Append(inv,
                     [NewInv("timeout", "done", data, origin, chain, exec)
                         EXCEPT !.response = "{}"])

\* the callbacks delivered again so far
RECURSIVE Duplicates(_)
Duplicates(execs) ==
    IF execs = <<>> THEN 0
    ELSE (IF Head(execs).fired > 1 THEN Head(execs).fired - 1 ELSE 0)
         + Duplicates(Tail(execs))

\* the scheduling primitive has waited WAIT_TIME and posts requestPath; it may
\* post the path of an execution again, up to limit times in all
step_function_callback(limit) ==
    /\ Admits
    /\ \E e \in 1..Len(executions) :
          /\ executions[e].fired = 0 \/ Duplicates(executions) < limit
          /\ timeout([executions EXCEPT ![e].fired = @ + 1],
                     executions[e].requestPath,
                     executions[e].origin, executions[e].chain, e)
    /\ UNCHANGED <<stateless, MAX_TIMEOUT_SECONDS, raiseExceptions, blasts_table,
                   blast_phones_table, sent_messages, posts>>

\* the payloads another client may post
PostPayloads ==
    LET ids == {"BLAST_TEST_ID"} \cup {b.blast_id : b \in {blasts_table[n] : n \in 1..Len(blasts_table)}}
        base == {<<>>, [method |-> "other"]}
                \cup {[method |-> ITERATE_BLAST, blast_id |-> b] : b \in ids}
    IN base \cup {DictSet(d, "remaining_timeout_seconds", r) :
                     d \in base, r \in {-1, 0, 1, MAX_TIMEOUT_SECONDS + 1}}

post_timeout ==
    /\ Admits
    /\ posts < MaxPosts
    /\ posts' = posts + 1
    /\ \E data \in PostPayloads :
          timeout(executions, serialize(data),
                  IF "remaining_timeout_seconds" \in DOMAIN data
                  THEN data.remaining_timeout_seconds ELSE 0,
                  <<>>, 0)
    /\ UNCHANGED <<stateless, MAX_TIMEOUT_SECONDS, raiseExceptions, blasts_table,
                   blast_phones_table, sent_messages>>

(***************************************************************************)
(* Bot.iterate_blast (messaging_bot.py:121-146).                           *)
(***************************************************************************)
\* logger.log(msg, blast_id) at invocation i: TypeError, or a return without
\* logging that lets the handler go on to `after`
logger_log(invs, i, after) ==
    IF raiseExceptions THEN Raise(invs, i, "TypeError") ELSE after

\* blasts_table.get_first(blast_id=blast_id) and the missing job
\* (overlaps: the invocations that have read the same job and not yet written)
iterate_blast_get ==
  \E i \in 1..Len(inv) :
    /\ inv[i].pc = "iterate_get"
    /\ LET blast == get_first(blasts_table, data_get(inv[i].data, "blast_id"))
       IN IF blast = None
          THEN inv' = logger_log(inv, i, [inv EXCEPT ![i].pc = "flush",
                                                     ![i].result = "no such blast"])
          ELSE inv' = [inv EXCEPT
                          ![i].blast = blast,
                          ![i].pc = "iterate_act",
                          ![i].overlaps =
                              {n \in 1..Len(inv) :
                                  /\ inv[n].pc = "iterate_act"
                                  /\ inv[n].blast.blast_id = blast.blast_id}]
    /\ UNCHANGED <<stateless, MAX_TIMEOUT_SECONDS, raiseExceptions, blasts_table,
                   blast_phones_table, sent_messages, executions, posts>>

\* {phone.phone_idx: phone.phone for phone in phones}: a later row wins
idx_to_phone(phones) ==
    [k \in {phones[n].phone_idx : n \in 1..Len(phones)} |->
        LET last == CHOOSE n \in 1..Len(phones) :
                       /\ phones[n].phone_idx = k
                       /\ \A m \in (n + 1)..Len(phones) : phones[m].phone_idx # k
        IN phones[last].phone]

\* idx_to_phone.get(key): "" stands for None, which `not phone` treats as ""
dict_get(d, key) == IF key \in DOMAIN d THEN d[key] ELSE ""

\* the index iterate_blast looks up
next_idx_to_send(blast) == PyInt(int(blast.last_phone_sent_idx) + 1)

\* the terminal step that schedules one more continuation
iterate_blast_act_terminal_schedules ==
  \E i \in 1..Len(inv) :
    /\ inv[i].pc = "iterate_act"
    /\ executions' =
           start_execution(executions,
               call_timeout_with_params(iterate_blast_params(inv[i].blast),
                                        LOOP_ITERATION_DELAY),
               LOOP_ITERATION_DELAY, iterate_blast_params(inv[i].blast),
               LOOP_ITERATION_DELAY, <<>>, i, inv[i].blast.blast_id)
    /\ inv' = [inv EXCEPT ![i].pc = "flush", ![i].result = "done"]
    /\ UNCHANGED <<stateless, MAX_TIMEOUT_SECONDS, raiseExceptions, blasts_table,
                   blast_phones_table, sent_messages, posts>>

\* the step removes the recipient rows it has read
iterate_blast_act_removes_rows ==
  \E i \in 1..Len(inv) :
    /\ inv[i].pc = "iterate_act"
    /\ blast_phones_table' =
           SelectSeq(blast_phones_table,
                     LAMBDA row : row.blast_id # inv[i].blast.blast_id)
    /\ inv' = [inv EXCEPT ![i].pc = "flush", ![i].result = "done"]
    /\ UNCHANGED <<stateless, MAX_TIMEOUT_SECONDS, raiseExceptions, blasts_table,
                   sent_messages, executions, posts>>

\* the rows are read and the step is taken: the job is finished, or the next
\* recipient is messaged and the cursor advanced (messaging_bot.py:126-141)
\* (phones keeps the rows read, blast the job as read)
iterate_blast_act ==
  \E i \in 1..Len(inv) :
    /\ inv[i].pc = "iterate_act"
    /\ LET blast == inv[i].blast
           phones == query(blast_phones_table, data_get(inv[i].data, "blast_id"))
           phone == dict_get(idx_to_phone(phones), next_idx_to_send(blast))
           done == [blast EXCEPT !.status = DONE, !.ended_timestamp = "utcnow"]
           sent == [blast EXCEPT !.last_phone_sent_idx = str(int(next_idx_to_send(blast)))]
       IN IF phone = ""
          THEN /\ inv' = logger_log([inv EXCEPT ![i].phones = phones], i,
                                      [inv EXCEPT ![i].phones = phones,
                                                  ![i].pc = "flush",
                                                  ![i].result = "done"])
               /\ blasts_table' = IF raiseExceptions THEN blasts_table
                                  ELSE put(blasts_table, done, BLASTS_KEYS)
          ELSE /\ inv' = [inv EXCEPT
                             ![i].messages = send_message(@, phone, blast.text_to_send),
                             ![i].phones = phones,
                             ![i].pc = "schedule",
                             ![i].result = "sent"]
               /\ blasts_table' = put(blasts_table, sent, BLASTS_KEYS)
    /\ UNCHANGED <<stateless, MAX_TIMEOUT_SECONDS, raiseExceptions, blast_phones_table,
                   sent_messages, executions, posts>>

(***************************************************************************)
(* Failing collaborators.                                                  *)
(***************************************************************************)
\* client.start_execution raises inside call_timeout_with_params
\* (messaging_bot.py:210-216): nothing is started, nothing catches it before
\* the handler is left
start_execution_fails ==
  \E i \in 1..Len(inv) :
    /\ inv[i].pc = "schedule"
    /\ inv' = Raise(inv, i, "ClientError")
    /\ UNCHANGED <<stateless, MAX_TIMEOUT_SECONDS, raiseExceptions, blasts_table,
                   blast_phones_table, sent_messages, executions, posts>>

\* a still-waiting tick posted by another client whose re-dispatch fails at
\* client.start_execution (app.py:58-59, messaging_bot.py:210-216)
post_timeout_start_execution_fails ==
    /\ Admits
    /\ posts < MaxPosts
    /\ posts' = posts + 1
    /\ \E data \in PostPayloads :
          /\ timeout_branch(data) = "tick"
          /\ inv' = Append(inv,
                 [NewInv("timeout", "flush", data, data.remaining_timeout_seconds,
                         <<>>, 0) EXCEPT !.exc = "ClientError"])
    /\ UNCHANGED <<stateless, MAX_TIMEOUT_SECONDS, raiseExceptions, blasts_table,
                   blast_phones_table, sent_messages, executions>>

\* the flush in which the messaging API fails: _async_post logs the failure and
\* returns (messaging.py:184-195), the messages are added to sent_messages and
\* the queue is emptied all the same (messaging.py:211-212); undelivered keeps
\* what the API did not take
flush_messages_fails ==
  \E i \in 1..Len(inv) :
    /\ inv[i].pc = "flush"
    /\ inv[i].messages # <<>>
    /\ sent_messages' = sent_messages \o inv[i].messages
    /\ inv' = [inv EXCEPT ![i].messages = <<>>,
                          ![i].undelivered = inv[i].messages,
                          ![i].pc = "done",
                          ![i].response = IF inv[i].exc = "" THEN "{}"
                                          ELSE "had an error"]
    /\ UNCHANGED <<stateless, MAX_TIMEOUT_SECONDS, raiseExceptions, blasts_table,
                   blast_phones_table, executions, posts>>

(***************************************************************************)
(* GET / (app.py:23-26).                                                   *)
(***************************************************************************)
\* GET / that also forgets the scheduled waits
hello_world_drops_executions ==
    /\ stateless.fn \in {"", "hello_world"}
    /\ Len(stateless.args) < MaxHellos
    /\ stateless' = [fn |-> "hello_world", pc |-> "done",
                     args |-> Append(stateless.args, "GET /"),
                     result |-> [message |-> "hello world!"]]
    /\ executions' = <<>>
    /\ UNCHANGED <<MAX_TIMEOUT_SECONDS, raiseExceptions, blasts_table,
                   blast_phones_table, sent_messages, inv, posts>>

\* the n-th GET / is answered (args: the requests answered so far)
hello_world ==
    /\ stateless.fn \in {"", "hello_world"}
    /\ Len(stateless.args) < MaxHellos
    /\ stateless' = [fn |-> "hello_world", pc |-> "done",
                     args |-> Append(stateless.args, "GET /"),
                     result |-> [message |-> "hello world!"]]
    /\ UNCHANGED <<MAX_TIMEOUT_SECONDS, raiseExceptions, blasts_table,
                   blast_phones_table, sent_messages, executions, inv, posts>>

(***************************************************************************)
(* utils.split_message_by_max_len (utils.py:455-478).  A str is the        *)
(* sequence of its characters; "" stands for split_by=None.                *)
(***************************************************************************)
\* the characters of the texts: a letter, the two separators, and U+00E9 (e
\* acute), whose UTF-8 encoding has two bytes
Chars == {"a", " ", "\n", "U+00E9"}
Messages == UNION {[1..n -> Chars] : n \in 0..MaxTextLen}

\* len(s.encode('utf8'))
RECURSIVE utf8_len(_)
utf8_len(s) ==
    IF s = <<>> THEN 0
    ELSE (IF Head(s) = "U+00E9" THEN 2 ELSE 1) + utf8_len(Tail(s))

\* message.split(split_by) for a separator of one character
RECURSIVE str_split(_, _)
str_split(s, sep) ==
    IF \A k \in 1..Len(s) : s[k] # sep THEN <<s>>
    ELSE LET i == CHOOSE k \in 1..Len(s) :
                     s[k] = sep /\ \A j \in 1..(k - 1) : s[j] # sep
         IN <<SubSeq(s, 1, i - 1)>> \o str_split(SubSeq(s, i + 1, Len(s)), sep)

\* a list(message) that leaves out the last character
list_without_last(s) == [k \in 1..(Len(s) - 1) |-> <<s[k]>>]

\* list(message)
list(s) == [k \in 1..Len(s) |-> <<s[k]>>]

\* the outcome of a call: the chunks returned, or the exception raised
Returns(chunks) == [exc |-> "", chunks |-> chunks]
RecursionError == [exc |-> "RecursionError", chunks |-> <<>>]

\* split_message_by_max_len and the rest of its for loop, from result_messages
\* = result on.  The call at utils.py:468 with the arguments of the running
\* call (split_by None, the line being the whole message) never returns:
\* Python ends it with RecursionError.
RECURSIVE split_message_by_max_len(_, _, _)
RECURSIVE for_line_in_lines(_, _, _, _, _)
for_line_in_lines(lines, result, message, max_len, split_by) ==
    IF lines = <<>> THEN Returns(result)
    ELSE LET line == Head(lines)
             narrower == IF split_by = "\n" THEN " " ELSE ""
         IN IF \/ result = <<>>
               \/ /\ result[Len(result)] # <<>>
                  /\ utf8_len(result[Len(result)]) + utf8_len(line) + 1 >= max_len
            THEN IF utf8_len(line) > max_len
                 THEN IF narrower = split_by /\ line = message
                      THEN RecursionError
                      ELSE LET sub == split_message_by_max_len(line, max_len, narrower)
                           IN IF sub.exc # "" THEN sub
                              ELSE for_line_in_lines(Tail(lines), result \o sub.chunks,
                                                     message, max_len, split_by)
                 ELSE for_line_in_lines(Tail(lines), Append(result, line),
                                        message, max_len, split_by)
            ELSE for_line_in_lines(
                     Tail(lines),
                     [result EXCEPT ![Len(result)] =
                         @ \o (IF split_by = "" THEN <<>> ELSE <<split_by>>) \o line],
                     message, max_len, split_by)

split_message_by_max_len(message, max_len, split_by) ==
    for_line_in_lines(IF split_by = "" THEN list(message)
                      ELSE str_split(message, split_by),
                      <<>>, message, max_len, split_by)

\* a caller hands a text and a max_len to split_message_by_max_len
split_message_call ==
    /\ stateless = NoCall
    /\ \E message \in Messages, max_len \in 1..MaxMaxLen :
          stateless' = [fn |-> "split_message_by_max_len", pc |-> "called",
                        args |-> <<message, max_len>>, result |-> <<>>]
    /\ UNCHANGED <<MAX_TIMEOUT_SECONDS, raiseExceptions, blasts_table,
                   blast_phones_table, sent_messages, executions, inv, posts>>

\* the call returns or raises
split_message_return ==
    /\ stateless.fn = "split_message_by_max_len"
    /\ stateless.pc = "called"
    /\ stateless' = [stateless EXCEPT
                        !.pc = "done",
                        !.result = split_message_by_max_len(stateless.args[1],
                                                            stateless.args[2], "\n")]
    /\ UNCHANGED <<MAX_TIMEOUT_SECONDS, raiseExceptions, blasts_table,
                   blast_phones_table, sent_messages, executions, inv, posts>>

(***************************************************************************)
(* utils.serialize / utils.deserialize (utils.py:52-59) as they compute:   *)
(* json.dumps, str.encode, base64.b64encode, bytes.decode, and back.  A    *)
(* str is the sequence of its characters, bytes a sequence of 0..255, a    *)
(* dict the sequence of its <<key, value>> items in insertion order, a     *)
(* value PyInt(n) or PyStr(s).  The service model above carries the        *)
(* encoded payload as the token serialize(param).                          *)
(***************************************************************************)
\* the str with the characters s
PyStr(s) == [t |-> "str", v |-> s]

\* the characters chr(32) .. chr(126); "U+0060" is the grave accent
Printable ==
    <<" ", "!", "\"", "#", "$", "%", "&", "'", "(", ")", "*", "+", ",", "-",
      ".", "/", "0", "1", "2", "3", "4", "5", "6", "7", "8", "9", ":", ";",
      "<", "=", ">", "?", "@", "A", "B", "C", "D", "E", "F", "G", "H", "I",
      "J", "K", "L", "M", "N", "O", "P", "Q", "R", "S", "T", "U", "V", "W",
      "X", "Y", "Z", "[", "\\", "]", "^", "_", "U+0060", "a", "b", "c", "d", "e",
      "f", "g", "h", "i", "j", "k", "l", "m", "n", "o", "p", "q", "r", "s",
      "t", "u", "v", "w", "x", "y", "z", "{", "|", "}", "~">>

\* ord(c) and chr(n) for the printable ASCII characters, line-break and U+00E9
Ord ==
    [c \in {Printable[k] : k \in 1..Len(Printable)} \cup {"\n", "U+00E9"} |->
        IF c = "\n" THEN 10
        ELSE IF c = "U+00E9" THEN 233
        ELSE 31 + (CHOOSE k \in 1..Len(Printable) : Printable[k] = c)]

ord(c) == Ord[c]

chr(n) ==
    IF n = 10 THEN "\n"
    ELSE IF n = 233 THEN "U+00E9"
    ELSE Printable[n - 31]

HasChr(n) == n \in (32..126) \cup {10, 233}

\* s.encode('utf8'): one byte below U+0080, two bytes below U+0800
RECURSIVE encode_utf8(_)
encode_utf8(s) ==
    IF s = <<>> THEN <<>>
    ELSE (IF ord(Head(s)) < 128 THEN <<ord(Head(s))>>
          ELSE <<192 + (ord(Head(s)) \div 64), 128 + (ord(Head(s)) % 64)>>)
         \o encode_utf8(Tail(s))

\* b.decode('utf8') of bytes that encode characters of the table
RECURSIVE decode_utf8(_)
decode_utf8(b) ==
    IF b = <<>> THEN <<>>
    ELSE IF b[1] < 128 THEN <<chr(b[1])>> \o decode_utf8(Tail(b))
    ELSE <<chr((b[1] - 192) * 64 + (b[2] - 128))>> \o decode_utf8(Tail(Tail(b)))

HexDigits ==
    <<"0", "1", "2", "3", "4", "5", "6", "7", "8", "9", "a", "b", "c", "d", "e", "f">>

\* the decimal digits of n >= 0
RECURSIVE json_digits(_)
json_digits(n) ==
    IF n < 10 THEN <<HexDigits[n + 1]>>
    ELSE json_digits(n \div 10) \o <<HexDigits[(n % 10) + 1]>>

\* json.dumps of an int
json_dumps_int(n) == IF n < 0 THEN <<"-">> \o json_digits(0 - n) ELSE json_digits(n)

\* json.dumps of one character of a str (ensure_ascii=True)
json_dumps_chr_raw(c) == <<c>>

json_dumps_chr(c) ==
    IF c = "\"" THEN <<"\\", "\"">>
    ELSE IF c = "\\" THEN <<"\\", "\\">>
    ELSE IF c = "\n" THEN <<"\\", "n">>
    ELSE IF ord(c) > 126
         THEN <<"\\", "u", HexDigits[(ord(c) \div 4096) + 1],
                HexDigits[((ord(c) \div 256) % 16) + 1],
                HexDigits[((ord(c) \div 16) % 16) + 1],
                HexDigits[(ord(c) % 16) + 1]>>
    ELSE <<c>>

\* json.dumps of a str
RECURSIVE json_dumps_chars(_)
json_dumps_chars(s) ==
    IF s = <<>> THEN <<>> ELSE json_dumps_chr(Head(s)) \o json_dumps_chars(Tail(s))

json_dumps_str(s) == <<"\"">> \o json_dumps_chars(s) \o <<"\"">>

json_dumps_value(x) ==
    IF x.t = "int" THEN json_dumps_int(x.v) ELSE json_dumps_str(x.v)

\* the items of a dict, separated by ", ", each key: value
RECURSIVE json_dumps_items(_)
json_dumps_items(items) ==
    IF items = <<>> THEN <<>>
    ELSE json_dumps_str(items[1][1]) \o <<":", " ">> \o json_dumps_value(items[1][2])
         \o (IF Len(items) > 1 THEN <<",", " ">> ELSE <<>>)
         \o json_dumps_items(Tail(items))

\* json.dumps(param) for a dict of str keys and str or int values
json_dumps(param) == <<"{">> \o json_dumps_items(param) \o <<"}">>

\* json.loads: a recursive-descent parser.  A parse answers the value read and
\* the text left, or fails (JSONDecodeError).
Parsed(val, rest) == [ok |-> TRUE, val |-> val, rest |-> rest]
JSONDecodeError == [ok |-> FALSE, val |-> <<>>, rest |-> <<>>]

RECURSIVE json_skip_whitespace(_)
json_skip_whitespace(s) ==
    IF s # <<>> /\ Head(s) \in {" ", "\n"} THEN json_skip_whitespace(Tail(s)) ELSE s

HexValues ==
    [c \in {HexDigits[k] : k \in 1..16} |-> (CHOOSE k \in 1..16 : HexDigits[k] = c) - 1]

IsDigit(c) == c \in {"0", "1", "2", "3", "4", "5", "6", "7", "8", "9"}
DigitValue(c) == HexValues[c]
IsHex(c) == c \in DOMAIN HexValues

\* the digits of an int after its first one
RECURSIVE json_loads_digits(_, _)
json_loads_digits(s, n) ==
    IF s # <<>> /\ IsDigit(Head(s))
    THEN json_loads_digits(Tail(s), 10 * n + DigitValue(Head(s)))
    ELSE Parsed(n, s)

\* a number: -? (0 | [1-9][0-9]*); fractions and exponents are floats, which
\* these payloads do not hold
json_loads_int(s) ==
    LET neg == s # <<>> /\ Head(s) = "-"
        d == IF neg THEN Tail(s) ELSE s
    IN IF d = <<>> \/ ~IsDigit(Head(d)) THEN JSONDecodeError
       ELSE LET m == IF Head(d) = "0" THEN Parsed(0, Tail(d))
                     ELSE json_loads_digits(Tail(d), DigitValue(Head(d)))
            IN IF m.rest # <<>> /\ m.rest[1] \in {".", "e", "E"} THEN JSONDecodeError
               ELSE Parsed(PyInt(IF neg THEN 0 - m.val ELSE m.val), m.rest)

\* the characters of a str up to its closing quote
RECURSIVE json_loads_chars(_, _)
json_loads_chars(s, acc) ==
    IF s = <<>> \/ Head(s) = "\n" THEN JSONDecodeError
    ELSE IF Head(s) = "\"" THEN Parsed(acc, Tail(s))
    ELSE IF Head(s) # "\\" THEN json_loads_chars(Tail(s), Append(acc, Head(s)))
    ELSE IF Len(s) < 2 THEN JSONDecodeError
    ELSE IF s[2] \in {"\"", "\\", "/"}
         THEN json_loads_chars(SubSeq(s, 3, Len(s)), Append(acc, s[2]))
    ELSE IF s[2] = "n" THEN json_loads_chars(SubSeq(s, 3, Len(s)), Append(acc, "\n"))
    ELSE IF s[2] = "u" /\ Len(s) >= 6 /\ \A k \in 3..6 : IsHex(s[k])
         THEN LET n == 4096 * DigitValue(s[3]) + 256 * DigitValue(s[4])
                       + 16 * DigitValue(s[5]) + DigitValue(s[6])
              IN IF HasChr(n)
                 THEN json_loads_chars(SubSeq(s, 7, Len(s)), Append(acc, chr(n)))
                 ELSE JSONDecodeError
    ELSE JSONDecodeError

json_loads_str(s) ==
    IF s = <<>> \/ Head(s) # "\"" THEN JSONDecodeError
    ELSE json_loads_chars(Tail(s), <<>>)

\* a value of these payloads: a str or an int
json_loads_value(s) ==
    IF s # <<>> /\ Head(s) = "\""
    THEN LET r == json_loads_str(s)
         IN IF r.ok THEN Parsed(PyStr(r.val), r.rest) ELSE r
    ELSE json_loads_int(s)

\* d[k] = val on a dict: a key it holds keeps its place
dict_setitem(d, k, val) ==
    IF \E i \in 1..Len(d) : d[i][1] = k
    THEN [i \in 1..Len(d) |-> IF d[i][1] = k THEN <<k, val>> ELSE d[i]]
    ELSE Append(d, <<k, val>>)

\* the items of an object after its opening brace or after a comma
RECURSIVE json_loads_items(_, _)
json_loads_items(s, d) ==
    LET k == json_loads_str(json_skip_whitespace(s))
    IN IF ~k.ok THEN JSONDecodeError
       ELSE LET c == json_skip_whitespace(k.rest)
            IN IF c = <<>> \/ Head(c) # ":" THEN JSONDecodeError
               ELSE LET x == json_loads_value(json_skip_whitespace(Tail(c)))
                    IN IF ~x.ok THEN JSONDecodeError
                       ELSE LET e == json_skip_whitespace(x.rest)
                                dd == dict_setitem(d, k.val, x.val)
                            IN IF e = <<>> THEN JSONDecodeError
                               ELSE IF Head(e) = "}" THEN Parsed(dd, Tail(e))
                               ELSE IF Head(e) = "," THEN json_loads_items(Tail(e), dd)
                               ELSE JSONDecodeError

json_loads_object(s) ==
    IF s = <<>> \/ Head(s) # "{" THEN JSONDecodeError
    ELSE LET b == json_skip_whitespace(Tail(s))
         IN IF b # <<>> /\ Head(b) = "}" THEN Parsed(<<>>, Tail(b))
            ELSE json_loads_items(b, <<>>)

\* json.loads(text): the dict, or the exception raised
json_loads(text) ==
    LET r == json_loads_object(json_skip_whitespace(text))
    IN IF r.ok /\ json_skip_whitespace(r.rest) = <<>>
       THEN [exc |-> "", value |-> r.val]
       ELSE [exc |-> "JSONDecodeError", value |-> <<>>]

\* the base64 alphabet: the character of each 6-bit value, from 0
B64 ==
    <<"A", "B", "C", "D", "E", "F", "G", "H", "I", "J", "K", "L", "M", "N",
      "O", "P", "Q", "R", "S", "T", "U", "V", "W", "X", "Y", "Z", "a", "b",
      "c", "d", "e", "f", "g", "h", "i", "j", "k", "l", "m", "n", "o", "p",
      "q", "r", "s", "t", "u", "v", "w", "x", "y", "z", "0", "1", "2", "3",
      "4", "5", "6", "7", "8", "9", "+", "/">>

\* the byte of each 6-bit value, and the 6-bit value of each such byte
B64Bytes == [k \in 1..64 |-> ord(B64[k])]
B64Values ==
    [b \in {B64Bytes[k] : k \in 1..64} |-> (CHOOSE k \in 1..64 : B64Bytes[k] = b) - 1]

b64chr(n) == B64Bytes[n + 1]
IsB64(b) == b \in DOMAIN B64Values
b64val(b) == B64Values[b]

\* base64.b64encode(b): three bytes to four characters, the tail padded with =
RECURSIVE b64encode(_)
b64encode(b) ==
    IF b = <<>> THEN <<>>
    ELSE IF Len(b) = 1
         THEN <<b64chr(b[1] \div 4), b64chr((b[1] % 4) * 16), ord("="), ord("=")>>
    ELSE IF Len(b) = 2
         THEN <<b64chr(b[1] \div 4), b64chr((b[1] % 4) * 16 + b[2] \div 16),
                b64chr((b[2] % 16) * 4), ord("=")>>
    ELSE <<b64chr(b[1] \div 4), b64chr((b[1] % 4) * 16 + b[2] \div 16),
           b64chr((b[2] % 16) * 4 + b[3] \div 64), b64chr(b[3] % 64)>>
         \o b64encode(SubSeq(b, 4, Len(b)))

\* the bytes of base64 text cleared of the characters outside the alphabet;
\* <<-1>> stands for binascii.Error (incorrect padding)
RECURSIVE b64decode_quads(_)
b64decode_quads(b) ==
    IF b = <<>> THEN <<>>
    ELSE IF Len(b) < 4 \/ ~IsB64(b[1]) \/ ~IsB64(b[2]) THEN <<-1>>
    ELSE IF b[3] = ord("=")
         THEN IF b[4] = ord("=") THEN <<b64val(b[1]) * 4 + b64val(b[2]) \div 16>>
              ELSE <<-1>>
    ELSE IF b[4] = ord("=")
         THEN <<b64val(b[1]) * 4 + b64val(b[2]) \div 16,
                (b64val(b[2]) % 16) * 16 + b64val(b[3]) \div 4>>
    ELSE <<b64val(b[1]) * 4 + b64val(b[2]) \div 16,
           (b64val(b[2]) % 16) * 16 + b64val(b[3]) \div 4,
           (b64val(b[3]) % 4) * 64 + b64val(b[4])>>
         \o b64decode_quads(SubSeq(b, 5, Len(b)))

\* base64.b64decode(b): characters outside the alphabet are discarded first
b64decode(b) ==
    b64decode_quads(SelectSeq(b, LAMBDA x : IsB64(x) \/ x = ord("=")))

\* utils.serialize(param)
utils_serialize(param) == decode_utf8(b64encode(encode_utf8(json_dumps(param))))

\* utils.deserialize(param): the dict, or the exception raised
utils_deserialize(param) ==
    LET b == b64decode(encode_utf8(param))
    IN IF \E k \in 1..Len(b) : b[k] = -1
       THEN [exc |-> "binascii.Error", value |-> <<>>]
       ELSE json_loads(decode_utf8(b))

\* the payloads: dicts of str keys and str or int values
PayloadChars == {"1", "\"", "\\", "\n", "?", "U+00E9"}
PayloadKeys == {<<"k">>, <<"\"", "1">>}
PayloadValues ==
    {PyStr(x) : x \in UNION {[1..n -> PayloadChars] : n \in 0..MaxStrLen}}
        \cup {PyInt(n) : n \in {0 - MaxInt, 0, 1, MaxInt}}
\* the dict of the keys ks, in this order, with the values vs
Payload(ks, vs) == [i \in 1..Len(ks) |-> <<ks[i], vs[i]>>]

\* conftest.TestingBot._process_single_timeout, first statement (the same
\* expression as messaging_bot.py:208): timeout_params = utils.serialize(params)
process_single_timeout_serialize ==
    /\ stateless = NoCall
    /\ \E n \in 0..MaxItems :
          \E ks \in [1..n -> PayloadKeys] :
             /\ \A i, j \in 1..n : ks[i] = ks[j] => i = j
             /\ \E vs \in [1..n -> PayloadValues] :
                   stateless' = [fn |-> "serialize", pc |-> "done",
                                 args |-> <<Payload(ks, vs)>>,
                                 result |-> utils_serialize(Payload(ks, vs))]
    /\ UNCHANGED <<MAX_TIMEOUT_SECONDS, raiseExceptions, blasts_table,
                   blast_phones_table, sent_messages, executions, inv, posts>>

\* its second statement, POST /timeout/{timeout_params}: the rule
\* '/timeout/<string:timeout_params>' (app.py:42) matches a segment without a
\* slash, and the view starts with deserialize(timeout_params) (app.py:47)
process_single_timeout_post ==
    /\ stateless.fn = "serialize"
    /\ stateless.pc = "done"
    /\ stateless' =
          IF \E k \in 1..Len(stateless.result) : stateless.result[k] = "/"
          THEN [fn |-> "deserialize", pc |-> "404", args |-> <<stateless.result>>,
                result |-> <<>>]
          ELSE [fn |-> "deserialize", pc |-> "done", args |-> <<stateless.result>>,
                result |-> utils_deserialize(stateless.result)]
    /\ UNCHANGED <<MAX_TIMEOUT_SECONDS, raiseExceptions, blasts_table,
                   blast_phones_table, sent_messages, executions, inv, posts>>

(***************************************************************************)
(* The conditional point write of the store, db.update_if_not_set, on a    *)
(* table with the keys of blasts_table.  stateless.args lists the calls    *)
(* made, stateless.result what each answered.  A call is one step: the     *)
(* service evaluates ConditionExpression and the update together, and the  *)
(* mock runs in the one thread of its test.                                *)
(***************************************************************************)
StoreKeys == {[blast_id |-> b, status |-> IN_PROGRESS] : b \in {"uid1", "uid2"}}
StoreAttributes == {"ended_timestamp", "owner"}
StoreValues == {"x", "y"}

\* the stored item with the key's values, or None
item_of(items, key, keys) ==
    IF \E n \in 1..Len(items) : complete_key(items[n], keys) = complete_key(key, keys)
    THEN items[CHOOSE n \in 1..Len(items) :
                   complete_key(items[n], keys) = complete_key(key, keys)]
    ELSE None

\* the item with attribute set to value
set_attribute(item, attribute, value) ==
    [a \in (DOMAIN item) \cup {attribute} |-> IF a = attribute THEN value ELSE item[a]]

\* the calls so far were made on this class of table
UpdateCalls(class) ==
    /\ stateless.fn \in {"", class}
    /\ Len(stateless.args) < MaxUpdates

Called(class, key, attribute, value, answer) ==
    [fn |-> class, pc |-> "done",
     args |-> Append(stateless.args, <<key, attribute, value>>),
     result |-> Append(stateless.result, answer)]

\* an item of the keys alone is put in the table
store_put ==
    /\ \E key \in StoreKeys :
          /\ item_of(blasts_table, key, BLASTS_KEYS) = None
          /\ blasts_table' = put(blasts_table, key, BLASTS_KEYS)
    /\ UNCHANGED <<stateless, MAX_TIMEOUT_SECONDS, raiseExceptions,
                   blast_phones_table, sent_messages, executions, inv, posts>>

\* db.DynamoDBTable.update_if_not_set: update_item with
\* ConditionExpression attribute_not_exists(#P); an item that does not exist is
\* created by the update; ConditionalCheckFailedException is answered False
DynamoDBTable_update_if_not_set ==
    /\ UpdateCalls("DynamoDBTable.update_if_not_set")
    /\ \E key \in StoreKeys, attribute \in StoreAttributes, value \in StoreValues :
          LET item == item_of(blasts_table, key, BLASTS_KEYS)
          IN IF item # None /\ attribute \in DOMAIN item
             THEN /\ stateless' = Called("DynamoDBTable.update_if_not_set",
                                         key, attribute, value, "False")
                  /\ UNCHANGED blasts_table
             ELSE /\ stateless' = Called("DynamoDBTable.update_if_not_set",
                                         key, attribute, value, "True")
                  /\ blasts_table' =
                        put(blasts_table,
                            set_attribute(IF item = None THEN key ELSE item,
                                          attribute, value),
                            BLASTS_KEYS)
    /\ UNCHANGED <<MAX_TIMEOUT_SECONDS, raiseExceptions, blast_phones_table,
                   sent_messages, executions, inv, posts>>

\* db.MockDynamoDBTable.update_if_not_set: when no item has the key,
\* self.items[key] = item (db.py:257) indexes a dict by the dict key, which
\* raises TypeError: unhashable type: 'dict', and nothing is stored
MockDynamoDBTable_update_if_not_set ==
    /\ UpdateCalls("MockDynamoDBTable.update_if_not_set")
    /\ \E key \in StoreKeys, attribute \in StoreAttributes, value \in StoreValues :
          LET item == item_of(blasts_table, key, BLASTS_KEYS)
          IN IF item = None
             THEN /\ stateless' = Called("MockDynamoDBTable.update_if_not_set",
                                         key, attribute, value, "TypeError")
                  /\ UNCHANGED blasts_table
             ELSE IF attribute \in DOMAIN item
             THEN /\ stateless' = Called("MockDynamoDBTable.update_if_not_set",
                                         key, attribute, value, "False")
                  /\ UNCHANGED blasts_table
             ELSE /\ stateless' = Called("MockDynamoDBTable.update_if_not_set",
                                         key, attribute, value, "True")
                  /\ blasts_table' =
                        put(blasts_table, set_attribute(item, attribute, value),
                            BLASTS_KEYS)
    /\ UNCHANGED <<MAX_TIMEOUT_SECONDS, raiseExceptions, blast_phones_table,
                   sent_messages, executions, inv, posts>>

(***************************************************************************)
(* Specifications.                                                         *)
(***************************************************************************)
Init ==
    /\ MAX_TIMEOUT_SECONDS \in 1..MaxCap
    /\ raiseExceptions \in BOOLEAN
    /\ blasts_table = <<>>
    /\ blast_phones_table = <<>>
    /\ sent_messages = <<>>
    /\ executions = <<>>
    /\ inv = <<>>
    /\ posts = 0
    /\ stateless = NoCall

\* any client, a scheduler that delivers at least once, overlapping requests
Next ==
    \/ handle_blast_request_put_blast(MaxBlasts)
    \/ handle_blast_request_put_phones
    \/ schedule_iterate_blast
    \/ iterate_blast_get
    \/ iterate_blast_act
    \/ flush_messages
    \/ step_function_callback(MaxDuplicates)
    \/ post_timeout

Spec == Init /\ [][Next]_vars

\* no other client, every callback delivered exactly once.  iterate_blast_act is
\* never enabled here: the scheduler only carries the blast_id BLAST_TEST_ID,
\* under which get_first finds no job.
NextOnce ==
    \/ handle_blast_request_put_blast(MaxOnceBlasts)
    \/ handle_blast_request_put_phones
    \/ schedule_iterate_blast
    \/ iterate_blast_get
    \/ flush_messages
    \/ step_function_callback(0)

SpecOnce == Init /\ [][NextOnce]_vars

\* any client, a scheduler and a messaging API that may fail, GET / at any time
NextService ==
    \/ Next
    \/ start_execution_fails
    \/ post_timeout_start_execution_fails
    \/ flush_messages_fails
    \/ hello_world

SpecService == Init /\ [][NextService]_vars

\* calls of the functions of utils.py
NextUtils ==
    \/ split_message_call
    \/ split_message_return
    \/ process_single_timeout_serialize
    \/ process_single_timeout_post

SpecUtils == Init /\ [][NextUtils]_vars

\* clients of the store's conditional write, on either class of table
NextStore ==
    \/ store_put
    \/ DynamoDBTable_update_if_not_set
    \/ MockDynamoDBTable_update_if_not_set

SpecStore == Init /\ [][NextStore]_vars

\* a client of the dispatcher hands it params and a delay
DispatchParams ==
    {iterate_blast_params(None), [method |-> "other", note |-> "kept"], <<>>}

dispatch ==
    /\ executions = <<>>
    /\ \E d \in 0..MaxDelay, params \in DispatchParams :
          executions' = start_execution(executions,
                            call_timeout_with_params(params, d),
                            d, params, d, <<>>, 0, "")
    /\ UNCHANGED <<stateless, MAX_TIMEOUT_SECONDS, raiseExceptions, blasts_table,
                   blast_phones_table, sent_messages, inv, posts>>

\* one delay, dispatched and followed through the callbacks of the endpoint
NextDelay ==
    \/ dispatch
    \/ step_function_callback(0)
    \/ iterate_blast_get
    \/ flush_messages

SpecDelay == Init /\ [][NextDelay]_vars

(***************************************************************************)
(* Properties.                                                             *)
(***************************************************************************)
Invs == 1..Len(inv)
Execs == 1..Len(executions)
JobIds == {blasts_table[k].blast_id : k \in 1..Len(blasts_table)}
JobDone(b) ==
    \E k \in 1..Len(blasts_table) :
        blasts_table[k].blast_id = b /\ blasts_table[k].status = DONE

\* nothing is executing and nothing is waiting at the scheduler
Quiescent ==
    /\ \A n \in Invs : inv[n].pc = "done"
    /\ \A e \in Execs : executions[e].fired >= 1

BlastInvs == {n \in Invs : inv[n].handler = "blast"}
\* an invocation of iterate_blast that found its job and has returned
IterateDone(n) ==
    /\ inv[n].handler = "timeout"
    /\ inv[n].pc = "done"
    /\ inv[n].blast # None

SentTo(phone) ==
    Cardinality({k \in 1..Len(sent_messages) : sent_messages[k].phone = phone})
Expected(phone) ==
    Cardinality({nk \in BlastInvs \X (1..MaxRecipients) :
                    /\ nk[2] <= Len(inv[nk[1]].phones)
                    /\ inv[nk[1]].phones[nk[2]] = phone})

RECURSIVE Sum(_)
Sum(seq) == IF seq = <<>> THEN 0 ELSE Head(seq) + Sum(Tail(seq))

\* the recipient rows read by invocation n whose index is the cursor read plus one
NextRows(n) ==
    {k \in 1..Len(inv[n].phones) :
        int(inv[n].phones[k].phone_idx) = int(inv[n].blast.last_phone_sent_idx) + 1}

\* C1: with every callback delivered once, when a blast on [text, r1, ..., rk],
\* k >= 1, has run out of continuations, every recipient has been messaged exactly
\* once, in list order, and the job is DONE.
C1_EndToEnd ==
    Quiescent =>
        \A n \in BlastInvs :
            inv[n].phones # <<>> =>
                /\ JobDone(inv[n].blast.blast_id)
                /\ \A k \in 1..Len(inv[n].phones) :
                       SentTo(inv[n].phones[k]) = Expected(inv[n].phones[k])
                /\ Cardinality(BlastInvs) = 1 =>
                       [k \in 1..Len(sent_messages) |-> sent_messages[k].phone]
                           = inv[n].phones

\* C2: every wait of the chain started by call_timeout_with_params(params, d) is
\* at most MAX_TIMEOUT_SECONDS; while the payload carries
\* remaining_timeout_seconds the waits so far and that remainder add up to d; the
\* payload that carries none ends the chain and its waits add up to d; and the
\* chain does end with such a payload.
C2_ChainOfWaits ==
    /\ \A e \in Execs :
          LET x == executions[e]
              data == deserialize(x.requestPath)
          IN /\ \A k \in 1..Len(x.chain) : x.chain[k] <= MAX_TIMEOUT_SECONDS
             /\ IF "remaining_timeout_seconds" \in DOMAIN data
                THEN /\ data.remaining_timeout_seconds > 0
                     /\ Sum(x.chain) + data.remaining_timeout_seconds = x.origin
                ELSE Sum(x.chain) = x.origin
    /\ (Quiescent /\ executions # <<>>) =>
          "remaining_timeout_seconds"
              \notin DOMAIN deserialize(executions[Len(executions)].requestPath)

\* a delay of more than two caps has been waited out in three waits or more
C2_Witness ==
    \E e \in Execs :
        /\ Len(executions[e].chain) >= 3
        /\ executions[e].origin > 2 * MAX_TIMEOUT_SECONDS
        /\ "remaining_timeout_seconds" \notin DOMAIN deserialize(executions[e].requestPath)
        /\ executions[e].fired = 1

\* C3: an iterate_blast call that read a job with cursor k and a recipient row
\* with index k+1 sends the job's text to that recipient and sets the cursor to
\* k+1.
C3_IterateSendsNext ==
    \A n \in Invs :
        (IterateDone(n) /\ NextRows(n) # {}) =>
            /\ inv[n].result = "sent"
            /\ \E k \in NextRows(n), m \in 1..Len(sent_messages) :
                   sent_messages[m] = [phone |-> inv[n].phones[k].phone,
                                       message |-> inv[n].blast.text_to_send]
            /\ \E j \in 1..Len(blasts_table) :
                   /\ blasts_table[j].blast_id = inv[n].blast.blast_id
                   /\ int(blasts_table[j].last_phone_sent_idx)
                          > int(inv[n].blast.last_phone_sent_idx)

C5_NoBlastLeftInProgress ==
    Quiescent =>
        \A n \in BlastInvs :
            (inv[n].exc = "" /\ inv[n].blast # None) =>
                \E k \in 1..Len(blasts_table) :
                    /\ blasts_table[k].blast_id = inv[n].blast.blast_id
                    /\ blasts_table[k].status = DONE

\* C6: the continuation a handler schedules names iterate_blast and the id of the
\* job that handler created or processed.
C6_PayloadNamesJob ==
    \A e \in Execs :
        executions[e].for_blast # "" =>
            /\ deserialize(executions[e].requestPath).method = ITERATE_BLAST
            /\ deserialize(executions[e].requestPath).blast_id = executions[e].for_blast

\* C7: an iterate_blast call that found its job sets DONE exactly when no
\* recipient row of the job has the index cursor + 1.
C7_DoneIffIndexAbsent ==
    \A n \in Invs :
        IterateDone(n) => (inv[n].result = "done" <=> NextRows(n) = {})

\* C8: two iterate_blast calls that both read a job before either wrote it, the
\* job having a recipient at cursor + 1, both send to that recipient: it is
\* messaged twice.
C8_OverlapSendsTwice ==
    \A m \in Invs, n \in Invs :
        (/\ IterateDone(m) /\ IterateDone(n)
         /\ m \in inv[n].overlaps
         /\ NextRows(n) # {}) =>
            /\ inv[m].result = "sent"
            /\ inv[n].result = "sent"
            /\ \E k \in NextRows(n) : SentTo(inv[n].phones[k].phone) >= 2

\* a /timeout invocation that is only a still-waiting tick: one wait
\* re-dispatched, iterate_blast not entered, no job read, nothing queued
TickOnly(n) ==
    /\ inv[n].pc \in {"flush", "done"}
    /\ inv[n].blast = None
    /\ inv[n].result = ""
    /\ inv[n].exc = ""
    /\ inv[n].messages = <<>>
    /\ Cardinality({e \in Execs : executions[e].by = n}) = 1

\* C9 as stated: a payload that contains remaining_timeout_seconds, whatever its
\* value, makes the invocation a tick only.
C9_AnyRemainingIsTick ==
    \A n \in Invs :
        (inv[n].handler = "timeout"
            /\ "remaining_timeout_seconds" \in DOMAIN inv[n].data) => TickOnly(n)

\* C9 amended: a payload whose remaining_timeout_seconds is not 0 makes the
\* invocation a tick only.
C9_NonZeroRemainingIsTick ==
    \A n \in Invs :
        (inv[n].handler = "timeout"
            /\ "remaining_timeout_seconds" \in DOMAIN inv[n].data
            /\ inv[n].data.remaining_timeout_seconds # 0) => TickOnly(n)

\* a tick has returned whose payload names iterate_blast and a job in the store
C9_Witness ==
    \E n \in Invs :
        /\ inv[n].handler = "timeout"
        /\ inv[n].pc = "done"
        /\ "remaining_timeout_seconds" \in DOMAIN inv[n].data
        /\ inv[n].data.remaining_timeout_seconds # 0
        /\ data_get(inv[n].data, "method") = ITERATE_BLAST
        /\ data_get(inv[n].data, "blast_id") \in JobIds

\* C10 as stated: a dispatch of a delay within the cap waits that delay and its
\* payload holds no remaining_timeout_seconds.
C10_NoRemainingWithinCap ==
    \A e \in Execs :
        executions[e].requested <= MAX_TIMEOUT_SECONDS =>
            /\ executions[e].WAIT_TIME = executions[e].requested
            /\ "remaining_timeout_seconds"
                   \notin DOMAIN deserialize(executions[e].requestPath)

\* C10 amended: a dispatch of a delay within the cap waits that delay and its
\* payload is the params as they were on entry.
C10_PayloadAsGivenWithinCap ==
    \A e \in Execs :
        executions[e].requested <= MAX_TIMEOUT_SECONDS =>
            /\ executions[e].WAIT_TIME = executions[e].requested
            /\ deserialize(executions[e].requestPath) = executions[e].params

\* the endpoint has re-dispatched a wait of one cap with a remainder in the params
C10_Witness ==
    \E e \in Execs :
        /\ executions[e].requested <= MAX_TIMEOUT_SECONDS
        /\ executions[e].by # 0
        /\ "remaining_timeout_seconds" \in DOMAIN executions[e].params

\* C11: a call_timeout_with_params(params, d) with d above the cap requests a
\* wait of exactly the cap, and its payload is params with
\* remaining_timeout_seconds = d - cap and every other key as it was.
C11_CappedWaitAndRemainder ==
    \A e \in Execs :
        LET x == executions[e]
            data == deserialize(x.requestPath)
        IN x.requested > MAX_TIMEOUT_SECONDS =>
              /\ x.WAIT_TIME = MAX_TIMEOUT_SECONDS
              /\ DOMAIN data = DOMAIN x.params \cup {"remaining_timeout_seconds"}
              /\ data.remaining_timeout_seconds = x.requested - MAX_TIMEOUT_SECONDS
              /\ \A k \in DOMAIN x.params \ {"remaining_timeout_seconds"} :
                     data[k] = x.params[k]

\* a delay above the cap has been dispatched with params that hold other keys
C11_Witness ==
    \E e \in Execs :
        /\ executions[e].requested > MAX_TIMEOUT_SECONDS
        /\ executions[e].requested - MAX_TIMEOUT_SECONDS > 1
        /\ "note" \in DOMAIN executions[e].params
        /\ "note" \in DOMAIN deserialize(executions[e].requestPath)

\* C12: iterate_blast on a blast id that has no job record returns normally: no
\* exception is raised.
C12_UnknownIdNoException ==
    \A n \in Invs :
        (/\ inv[n].handler = "timeout"
         /\ timeout_branch(inv[n].data) = "iterate_blast"
         /\ inv[n].pc \in {"flush", "done"}
         /\ inv[n].blast = None) => inv[n].exc = ""

\* C13: every POST /timeout that has been answered was answered with the empty
\* JSON object.
C13_TimeoutAnswersEmptyObject ==
    \A n \in Invs :
        (inv[n].handler = "timeout" /\ inv[n].pc = "done") => inv[n].response = "{}"

\* a payload without remaining_timeout_seconds whose method is not iterate_blast
IgnoredPayload(data) ==
    /\ "remaining_timeout_seconds" \notin DOMAIN data
    /\ data_get(data, "method") # ITERATE_BLAST

\* C14: the arrival of a /timeout payload without remaining_timeout_seconds whose
\* method is missing or is not iterate_blast answers {} at once, raises nothing,
\* and leaves the tables, the messages sent and the scheduled waits as they were.
C14_UnrecognisedMethodIgnored ==
    [][\A n \in 1..Len(inv') :
          (/\ n > Len(inv)
           /\ inv'[n].handler = "timeout"
           /\ IgnoredPayload(inv'[n].data)) =>
              /\ inv'[n].pc = "done"
              /\ inv'[n].response = "{}"
              /\ inv'[n].exc = ""
              /\ inv'[n].blast = None
              /\ inv'[n].messages = <<>>
              /\ blasts_table' = blasts_table
              /\ blast_phones_table' = blast_phones_table
              /\ sent_messages' = sent_messages
              /\ Len(executions') = Len(executions)]_vars

\* a payload with an unrecognised method has been answered while a job exists
C14_Witness ==
    \E n \in Invs :
        /\ inv[n].handler = "timeout"
        /\ IgnoredPayload(inv[n].data)
        /\ "method" \in DOMAIN inv[n].data
        /\ inv[n].pc = "done"
        /\ blasts_table # <<>>

C17_EndedIffDone ==
    \A k \in 1..Len(blasts_table) :
        (blasts_table[k].ended_timestamp # "") <=> (blasts_table[k].status = DONE)

\* iterate_blast has finished a job: its DONE record carries the end time
C17_Witness ==
    \E k \in 1..Len(blasts_table), n \in Invs :
        /\ blasts_table[k].status = DONE
        /\ blasts_table[k].ended_timestamp = "utcnow"
        /\ IterateDone(n)
        /\ inv[n].result = "done"
        /\ inv[n].blast.blast_id = blasts_table[k].blast_id

\* C18: once handle_blast_request has written the recipients r1..r(N-1) of a new
\* blast, the store holds N-1 rows for its id and their indices are exactly
\* 0..N-2.
C18_DenseRecipientRows ==
    \A n \in BlastInvs :
        (inv[n].blast # None /\ inv[n].pc # "phones") =>
            LET rows == query(blast_phones_table, inv[n].blast.blast_id)
            IN /\ Len(rows) = Len(inv[n].phones)
               /\ {int(rows[k].phone_idx) : k \in 1..Len(rows)}
                      = 0..(Len(inv[n].phones) - 1)

\* C19: no step taken after a blast's start has written its recipients changes
\* the recipient rows of that blast, and no step removes a job record.
C19_RowsFrozenAfterStart ==
    [][/\ \A n \in BlastInvs :
             (inv[n].blast # None /\ inv[n].pc # "phones") =>
                 query(blast_phones_table', inv[n].blast.blast_id)
                     = query(blast_phones_table, inv[n].blast.blast_id)
       /\ \A k \in 1..Len(blasts_table) :
             \E j \in 1..Len(blasts_table') :
                 complete_key(blasts_table'[j], BLASTS_KEYS)
                     = complete_key(blasts_table[k], BLASTS_KEYS)]_vars

\* iterate_blast has read the rows of a job and finished it; the rows are still
\* the ones it read
C19_Witness ==
    \E n \in Invs :
        /\ IterateDone(n)
        /\ inv[n].result = "done"
        /\ Len(inv[n].phones) = MaxRecipients
        /\ query(blast_phones_table, inv[n].blast.blast_id) = inv[n].phones
        /\ JobDone(inv[n].blast.blast_id)

\* C20: every message sent has the blast's text as its body, and the text is
\* never a destination nor a recipient row.
C20_BodyIsBlastText ==
    /\ \A k \in 1..Len(sent_messages) :
          /\ sent_messages[k].message = Text
          /\ sent_messages[k].phone # Text
    /\ \A k \in 1..Len(blast_phones_table) : blast_phones_table[k].phone # Text

\* C21: an iterate_blast call on a job that has a recipient at cursor + 1
\* returns without an exception, has advanced the persisted cursor and has
\* scheduled the next continuation, whether or not the messaging API delivers.
C21_FailedSendStillAdvances ==
    \A n \in Invs :
        (IterateDone(n) /\ NextRows(n) # {}) =>
            /\ inv[n].exc = ""
            /\ \E j \in 1..Len(blasts_table) :
                   /\ blasts_table[j].blast_id = inv[n].blast.blast_id
                   /\ int(blasts_table[j].last_phone_sent_idx)
                          = int(inv[n].blast.last_phone_sent_idx) + 1
            /\ \E e \in Execs : executions[e].by = n

\* C22: a handler in which client.start_execution raised has started no
\* execution and tries no further one, and its request is answered with the
\* generic error response.
C22_ScheduleFailurePropagates ==
    \A n \in Invs :
        inv[n].exc = "ClientError" =>
            /\ inv[n].pc \in {"flush", "done"}
            /\ \A e \in Execs : executions[e].by # n
            /\ inv[n].pc = "done" => inv[n].response = "had an error"

\* the scheduler has failed both a POST /blast and a POST /timeout
C22_Witness ==
    \E m \in Invs, n \in Invs :
        /\ inv[m].handler = "blast" /\ inv[n].handler = "timeout"
        /\ inv[m].exc = "ClientError" /\ inv[n].exc = "ClientError"
        /\ inv[m].pc = "done" /\ inv[n].pc = "done"
        /\ inv[m].response = "had an error"

\* C27: every GET / is answered with {message: 'hello world!'} and leaves the
\* tables, the scheduled waits, the messages and the running requests as they
\* were.
C27_HelloWorldFrame ==
    [][(stateless' # stateless /\ stateless'.fn = "hello_world") =>
          /\ stateless'.result = [message |-> "hello world!"]
          /\ UNCHANGED <<blasts_table, blast_phones_table, executions,
                         sent_messages, inv, posts>>]_vars

\* GET / has been answered in a behaviour with a job, a wait and a message
C27_Witness ==
    /\ stateless.fn = "hello_world"
    /\ stateless.result = [message |-> "hello world!"]
    /\ blasts_table # <<>>
    /\ executions # <<>>
    /\ sent_messages # <<>>

\* C28: when a continuation has been scheduled for a blast, the job row and
\* every recipient row of the step that scheduled it are in the store, and the
\* callback it triggers reads that job.
C28_WritesBeforeSchedule ==
    /\ \A e \in Execs :
          executions[e].for_blast # "" =>
              /\ get_first(blasts_table, executions[e].for_blast) # None
              /\ \A k \in 1..Len(inv[executions[e].by].phones) :
                     \E r \in 1..Len(blast_phones_table) :
                         /\ blast_phones_table[r].blast_id = executions[e].for_blast
                         /\ blast_phones_table[r].phone = inv[executions[e].by].phones[k]
    /\ \A n \in Invs :
          (/\ inv[n].handler = "timeout"
           /\ inv[n].exec # 0
           /\ executions[inv[n].exec].for_blast # ""
           /\ inv[n].pc # "iterate_get") =>
              /\ inv[n].blast # None
              /\ inv[n].blast.blast_id = executions[inv[n].exec].for_blast

\* the job table with the end times blanked
WithoutEnded(items) ==
    [k \in 1..Len(items) |-> [items[k] EXCEPT !.ended_timestamp = ""]]

\* C29: the iterate_blast step that finds no recipient at the next index
\* transmits nothing, queues nothing, schedules nothing and leaves the cursor
\* of the job as it was read; on a job that is already DONE it changes nothing
\* in the store but possibly the end time.
C29_TerminalCallFrame ==
    [][\A n \in Invs :
          (inv[n].pc = "iterate_act" /\ inv'[n].pc = "flush") =>
              /\ sent_messages' = sent_messages
              /\ executions' = executions
              /\ inv'[n].messages = <<>>
              /\ blast_phones_table' = blast_phones_table
              /\ \A j \in 1..Len(blasts_table') :
                     blasts_table'[j].blast_id = inv[n].blast.blast_id =>
                         blasts_table'[j].last_phone_sent_idx
                             = inv[n].blast.last_phone_sent_idx
              /\ JobDone(inv[n].blast.blast_id) =>
                     WithoutEnded(blasts_table') = WithoutEnded(blasts_table)]_vars

\* the terminal call has run twice, one after the other, on a job whose only
\* recipient has index 0
C29_Witness ==
    \E m \in Invs, n \in Invs :
        /\ m # n
        /\ IterateDone(m) /\ IterateDone(n)
        /\ inv[m].blast.blast_id = inv[n].blast.blast_id
        /\ inv[m].result = "done" /\ inv[n].result = "done"
        /\ m \notin inv[n].overlaps /\ n \notin inv[m].overlaps
        /\ Len(inv[n].phones) = 1
        /\ NextRows(m) = {} /\ NextRows(n) = {}

\* C30: a still-waiting tick re-dispatches its payload with every key but
\* remaining_timeout_seconds as it arrived, and the mapping that reaches the
\* action branch is the params that were dispatched.
C30_TickKeepsOtherKeys ==
    \A n \in Invs :
        inv[n].handler = "timeout" =>
            IF timeout_branch(inv[n].data) = "tick"
            THEN \A e \in Execs :
                     executions[e].by = n =>
                         DictDel(deserialize(executions[e].requestPath),
                                 "remaining_timeout_seconds")
                             = DictDel(inv[n].data, "remaining_timeout_seconds")
            ELSE inv[n].data = executions[1].params

\* params with a key of their own have reached the action branch after ticks
C30_Witness ==
    \E n \in Invs :
        /\ inv[n].handler = "timeout"
        /\ timeout_branch(inv[n].data) # "tick"
        /\ Len(inv[n].chain) >= 3
        /\ "note" \in DOMAIN inv[n].data
        /\ inv[n].pc = "done"

\* a call of split_message_by_max_len has ended
SplitDone ==
    stateless.fn = "split_message_by_max_len" /\ stateless.pc = "done"

\* no piece of the text between line-breaks and spaces is longer than max_len:
\* the character-level split is not entered
NoCharLevel(message, max_len) ==
    \A i \in 1..Len(str_split(message, "\n")) :
        LET words == str_split(str_split(message, "\n")[i], " ")
        IN \A j \in 1..Len(words) : utf8_len(words[j]) <= max_len

\* C23: every chunk returned by split_message_by_max_len has a UTF-8 size of at
\* most max_len (for texts that do not reach the character-level split).
C23_ChunksWithinMaxLen ==
    (SplitDone /\ NoCharLevel(stateless.args[1], stateless.args[2])) =>
        /\ stateless.result.exc = ""
        /\ \A k \in 1..Len(stateless.result.chunks) :
               utf8_len(stateless.result.chunks[k]) <= stateless.args[2]

\* C24: for a text of at most max_len characters split_message_by_max_len
\* returns the text as its one chunk.
C24_ShortTextOneChunk ==
    (SplitDone /\ Len(stateless.args[1]) <= stateless.args[2]) =>
        stateless.result = Returns(<<stateless.args[1]>>)

\* C25: every call of split_message_by_max_len with max_len >= 1 returns.
C25_SplitTerminates ==
    (SplitDone /\ stateless.args[2] >= 1) => stateless.result.exc = ""

TwoLines(message, max_len) ==
    /\ Len(str_split(message, "\n")) = 2
    /\ \A i \in 1..2 : utf8_len(str_split(message, "\n")[i]) <= max_len

\* the text is letters only and longer than max_len, so it is split at the
\* character level
LettersOnly(message, max_len) ==
    /\ Len(message) > max_len
    /\ \A k \in 1..Len(message) : message[k] = "a"

\* C31: the next segment is joined to the current chunk exactly when
\* len(current) + len(separator) + len(next) < max_len, the separator counting
\* 1 for a line-break or space and 0 at the character level; otherwise a new
\* chunk is started.
C31_JoinsExactlyBelowMaxLen ==
    /\ (SplitDone /\ TwoLines(stateless.args[1], stateless.args[2])) =>
          LET lines == str_split(stateless.args[1], "\n")
          IN stateless.result.chunks =
                IF Len(lines[1]) + 1 + Len(lines[2]) < stateless.args[2]
                THEN <<stateless.args[1]>>
                ELSE lines
    /\ (SplitDone /\ LettersOnly(stateless.args[1], stateless.args[2])) =>
          \* the first chunk takes letters while len(current) + 0 + 1 < max_len
          Len(stateless.result.chunks[1]) =
              IF stateless.args[2] = 1 THEN 1 ELSE stateless.args[2] - 1

\* the step is a call of update_if_not_set
UpdateStep == Len(stateless'.args) = Len(stateless.args) + 1

\* C32: update_if_not_set writes only when the attribute is absent: a call that
\* finds it absent answers True and sets it, a call that finds it set answers
\* False and leaves the table as it was; the calls being single steps, of two
\* calls for one key and attribute the first alone answers True.
C32_UpdateIfNotSet ==
    [][UpdateStep =>
          LET c == stateless'.args[Len(stateless'.args)]
              answer == stateless'.result[Len(stateless'.result)]
              item == item_of(blasts_table, c[1], BLASTS_KEYS)
              after == item_of(blasts_table', c[1], BLASTS_KEYS)
          IN IF item # None /\ c[2] \in DOMAIN item
             THEN answer = "False" /\ blasts_table' = blasts_table
             ELSE /\ answer = "True"
                  /\ after # None
                  /\ c[2] \in DOMAIN after
                  /\ after[c[2]] = c[3]]_vars

PendingFor(b) ==
    {e \in Execs :
        /\ executions[e].fired = 0
        /\ deserialize(executions[e].requestPath).blast_id = b}
ExecutingFor(b) ==
    {n \in Invs :
        /\ inv[n].pc \notin {"flush", "done"}
        /\ \/ inv[n].handler = "blast" /\ inv[n].blast # None
                 /\ inv[n].blast.blast_id = b
           \/ inv[n].handler = "timeout" /\ "blast_id" \in DOMAIN inv[n].data
                 /\ inv[n].data.blast_id = b}

\* C34: with every callback delivered once and no failure, a job that is
\* IN_PROGRESS has exactly one continuation, waiting or executing, and a job
\* that is DONE has none.
C34_OneContinuationWhileInProgress ==
    (\A n \in Invs : inv[n].exc = "") =>
        \A b \in JobIds :
            Cardinality(PendingFor(b)) + Cardinality(ExecutingFor(b))
                = IF JobDone(b) THEN 0 ELSE 1

C35_SequentialDuplicateAdvances ==
    \A m \in Invs, n \in Invs :
        (/\ m # n
         /\ IterateDone(m) /\ IterateDone(n)
         /\ inv[m].blast.blast_id = inv[n].blast.blast_id
         /\ m \notin inv[n].overlaps /\ n \notin inv[m].overlaps
         /\ NextRows(m) # {} /\ NextRows(n) # {}) =>
            int(inv[m].blast.last_phone_sent_idx)
                # int(inv[n].blast.last_phone_sent_idx)

\* C36: an iterate_blast call on a job with a recipient at cursor + 1 reaches the
\* scheduling of its continuation with the cursor advance persisted; when that
\* scheduling fails no continuation of the call exists and the job is not DONE.
C36_ScheduleFailureStrandsBlast ==
    \A n \in Invs :
        (IterateDone(n) /\ NextRows(n) # {}) =>
            /\ \E j \in 1..Len(blasts_table) :
                   /\ blasts_table[j].blast_id = inv[n].blast.blast_id
                   /\ int(blasts_table[j].last_phone_sent_idx)
                          >= int(inv[n].blast.last_phone_sent_idx) + 1
            /\ \/ \E e \in Execs : executions[e].by = n
               \/ /\ inv[n].exc = "ClientError"
                  /\ ~JobDone(inv[n].blast.blast_id)

RECURSIVE join(_)
join(chunks) == IF chunks = <<>> THEN <<>> ELSE Head(chunks) \o join(Tail(chunks))

\* the text without its line-breaks and spaces
Content(s) == SelectSeq(s, LAMBDA c : c \notin {"\n", " "})

\* C39: the chunks split_message_by_max_len returns, concatenated and cleared
\* of line-breaks and spaces, are the text cleared of line-breaks and spaces:
\* no other character is lost, added or moved.
C39_ContentKept ==
    (SplitDone /\ stateless.result.exc = "") =>
        Content(join(stateless.result.chunks)) = Content(stateless.args[1])

\* a text with a line-break, a space and letters has been cut into several
\* chunks, at the character level too, and separators were dropped
C39_Witness ==
    /\ SplitDone
    /\ stateless.result.exc = ""
    /\ Len(stateless.result.chunks) >= 3
    /\ \E k \in 1..Len(stateless.args[1]) : stateless.args[1][k] = "\n"
    /\ \E k \in 1..Len(stateless.args[1]) : stateless.args[1][k] = " "
    /\ ~NoCharLevel(stateless.args[1], stateless.args[2])
    /\ join(stateless.result.chunks) # stateless.args[1]

====
